---- MODULE Spec2Model ----
(***************************************************************************)
(* Model of src/script.py, the ProspektMaschinenScraper.                   *)
(*                                                                         *)
(* Texts (date strings, titles, link texts) are sequences of one-character *)
(* strings, so that strip, split and the regular-expression searches are   *)
(* computed character by character as the code computes them.              *)
(***************************************************************************)
EXTENDS Integers, Sequences, FiniteSets, TLC

VARIABLES
    now,            \* the wall clock read by datetime.datetime.now()
    date_str,       \* parse_date: its argument
    parsed,         \* parse_date: what it returned
    brochure,       \* extract_brochure_data: its argument, a markup fragment
    shop_name,      \* extract_brochure_data: its argument
    brochure_data,  \* extract_brochure_data: what it returned
    pc,             \* position of run()
    catalog_page,   \* what the request for the catalog page was answered with
    hypermarkets,   \* scrape_all_hypermarkets: the catalog
    i,              \* scrape_all_hypermarkets: the loop index
    all_brochures,  \* scrape_all_hypermarkets: the aggregate
    responses,      \* what each shop page request was answered with
    trace,          \* outbound requests, sleeps and saves, in order
    output_file     \* content of self.output_file

parseVars == <<date_str, parsed>>

extractVars == <<brochure, shop_name, brochure_data>>

runVars == <<pc, catalog_page, hypermarkets, i, all_brochures, responses, trace,
             output_file>>

vars == <<now, parseVars, extractVars, runVars>>

(***************************************************************************)
(* Bounds of the model.                                                    *)
(***************************************************************************)
MaxTokens == 5

MaxImgs == 2

MaxShops == 3

(***************************************************************************)
(* Python values.                                                          *)
(***************************************************************************)
\* None where a text is expected: a sequence holding a non-character, so it
\* differs from every text, the empty text included.
None == <<"None">>

\* None where an element or a record is expected.
NoneRec == [kind |-> "None"]

Digits == {"0", "1", "2", "3", "4", "5", "6", "7", "8", "9"}

Whitespace == {" "}

Min(S) == CHOOSE k \in S : \A m \in S : k <= m

\* str(n) for a four-digit calendar year
DigitChar(n) == CASE n = 0 -> "0" [] n = 1 -> "1" [] n = 2 -> "2" [] n = 3 -> "3"
                  [] n = 4 -> "4" [] n = 5 -> "5" [] n = 6 -> "6" [] n = 7 -> "7"
                  [] n = 8 -> "8" [] n = 9 -> "9"

Str(n) == <<DigitChar(n \div 1000), DigitChar((n \div 100) % 10),
            DigitChar((n \div 10) % 10), DigitChar(n % 10)>>

\* str.strip()
RECURSIVE LStrip(_)
LStrip(s) == IF s # <<>> /\ Head(s) \in Whitespace THEN LStrip(Tail(s)) ELSE s

RECURSIVE RStrip(_)
RStrip(s) == IF s # <<>> /\ s[Len(s)] \in Whitespace
             THEN RStrip(SubSeq(s, 1, Len(s) - 1)) ELSE s

Strip(s) == RStrip(LStrip(s))

\* str.split(sep): the pieces between the occurrences of sep, empty ones kept
RECURSIVE SplitFrom(_, _, _)
SplitFrom(s, sep, cur) ==
    IF s = <<>> THEN <<cur>>
    ELSE IF Head(s) = sep THEN <<cur>> \o SplitFrom(Tail(s), sep, <<>>)
    ELSE SplitFrom(Tail(s), sep, Append(cur, Head(s)))

Split(s, sep) == SplitFrom(s, sep, <<>>)

(***************************************************************************)
(* The three regular expressions of parse_date.  re.search scans the text  *)
(* from the left and returns the first position at which the pattern       *)
(* matches; the patterns have a fixed length, so a match at a position is  *)
(* decided by the characters at that position alone.                       *)
(***************************************************************************)
NoMatch == [kind |-> "None"]

IsDigitAt(s, k) == k <= Len(s) /\ s[k] \in Digits

IsDotAt(s, k) == k <= Len(s) /\ s[k] = "."

\* (\d{2})\.(\d{2})\.
ShortAt(s, k) ==
    /\ IsDigitAt(s, k) /\ IsDigitAt(s, k + 1) /\ IsDotAt(s, k + 2)
    /\ IsDigitAt(s, k + 3) /\ IsDigitAt(s, k + 4) /\ IsDotAt(s, k + 5)

\* (\d{2})\.(\d{2})\.(\d{4})
FullAt(s, k) ==
    /\ ShortAt(s, k)
    /\ IsDigitAt(s, k + 6) /\ IsDigitAt(s, k + 7)
    /\ IsDigitAt(s, k + 8) /\ IsDigitAt(s, k + 9)

\* (\d{4})
YearAt(s, k) ==
    /\ IsDigitAt(s, k) /\ IsDigitAt(s, k + 1)
    /\ IsDigitAt(s, k + 2) /\ IsDigitAt(s, k + 3)

RECURSIVE SearchFullFrom(_, _)
SearchFullFrom(s, k) ==
    IF k > Len(s) THEN NoMatch
    ELSE IF FullAt(s, k)
         THEN [kind |-> "Match", day |-> SubSeq(s, k, k + 1),
               month |-> SubSeq(s, k + 3, k + 4), year |-> SubSeq(s, k + 6, k + 9)]
         ELSE SearchFullFrom(s, k + 1)

date_pattern_full(s) == SearchFullFrom(s, 1)

RECURSIVE SearchShortFrom(_, _)
SearchShortFrom(s, k) ==
    IF k > Len(s) THEN NoMatch
    ELSE IF ShortAt(s, k)
         THEN [kind |-> "Match", day |-> SubSeq(s, k, k + 1),
               month |-> SubSeq(s, k + 3, k + 4)]
         ELSE SearchShortFrom(s, k + 1)

date_pattern_short(s) == SearchShortFrom(s, 1)

RECURSIVE SearchYearFrom(_, _)
SearchYearFrom(s, k) ==
    IF k > Len(s) THEN NoMatch
    ELSE IF YearAt(s, k)
         THEN [kind |-> "Match", year |-> SubSeq(s, k, k + 3)]
         ELSE SearchYearFrom(s, k + 1)

year_match(s) == SearchYearFrom(s, 1)

\* f"{year}-{month}-{day}"
FormatDate(year, month, day) == year \o <<"-">> \o month \o <<"-">> \o day

(***************************************************************************)
(* parse_date                                                              *)
(***************************************************************************)
ParseResult(from, to, log) ==
    [raised |-> FALSE, valid_from |-> from, valid_to |-> to, log |-> log]

ParseRaised(exc) ==
    [raised |-> TRUE, valid_from |-> None, valid_to |-> None, log |-> <<>>, exc |-> exc]

Warning(by, msg) == [by |-> by, level |-> "WARNING", msg |-> msg]

Error(by, msg) == [by |-> by, level |-> "ERROR", msg |-> msg]

\* len(parts) != 2
WrongPartCount_TwoOrMore(parts) == Len(parts) < 2

WrongPartCount(parts) == Len(parts) # 2

\* the year of the short format: the match of (\d{4}) in date_str, else the
\* current year
ShortYear_FromSegment(text, current_year) ==
    LET m == year_match(Split(Strip(text), "-")[1])
    IN  IF m # NoMatch THEN m.year ELSE current_year

ShortYear(text, current_year) ==
    LET m == year_match(text)
    IN  IF m # NoMatch THEN m.year ELSE current_year

\* the second test of the short format, on date_to_str
ToMatchShort_Strict(date_to_str) ==
    IF date_pattern_full(date_to_str) # NoMatch THEN NoMatch
    ELSE date_pattern_short(date_to_str)

ToMatchShort(date_to_str) == date_pattern_short(date_to_str)

\* the body of the try block, lines 80-125
ParseDateBody(text, clock) ==
    IF text = None
    THEN ParseRaised("AttributeError")      \* None has no strip()
    ELSE
    LET parts == Split(Strip(text), "-")
    IN  IF WrongPartCount(parts)
        THEN ParseResult(None, None, <<Warning("parse_date", "Neocakavany format datumu")>>)
        ELSE
        LET date_from_str   == Strip(parts[1])
            date_to_str     == Strip(parts[2])
            from_match_full == date_pattern_full(date_from_str)
            to_match_full   == date_pattern_full(date_to_str)
        IN  IF from_match_full # NoMatch /\ to_match_full # NoMatch
            THEN ParseResult(
                    FormatDate(from_match_full.year, from_match_full.month, from_match_full.day),
                    FormatDate(to_match_full.year, to_match_full.month, to_match_full.day),
                    <<>>)
            ELSE
            LET from_match_short == date_pattern_short(date_from_str)
                to_match_short   == ToMatchShort(date_to_str)
            IN  IF from_match_short # NoMatch /\ to_match_short # NoMatch
                THEN LET current_year == Str(clock.year)
                         year         == ShortYear(text, current_year)
                     IN  ParseResult(
                            FormatDate(year, from_match_short.month, from_match_short.day),
                            FormatDate(year, to_match_short.month, to_match_short.day),
                            <<>>)
                ELSE ParseResult(None, None,
                        <<Warning("parse_date", "Nepodarilo sa extrahovat datumy")>>)

\* except Exception, lines 126-128
ParseDateExcept(body) ==
    IF body.raised
    THEN ParseResult(None, None, <<Error("parse_date", "Chyba pri parsovani datumu")>>)
    ELSE body

parse_date(text, clock) == ParseDateExcept(ParseDateBody(text, clock))

(***************************************************************************)
(* Inputs of parse_date: the texts made of at most MaxTokens pieces, and   *)
(* None (a caller may pass any value).                                     *)
(***************************************************************************)
tShort  == <<"0", "1", ".", "0", "3", ".">>
tFull   == <<"1", "5", ".", "0", "3", ".", "2", "0", "2", "4">>
tYear   == <<"2", "0", "2", "5">>
tNumber == <<"1", "2", "3", "4", "5">>
tHyphen == <<"-">>
tSpace  == <<" ">>
tWord   == <<"x">>

Tokens == {tShort, tFull, tYear, tNumber, tHyphen, tSpace, tWord}

RECURSIVE Concat(_)
Concat(ts) == IF ts = <<>> THEN <<>> ELSE Head(ts) \o Concat(Tail(ts))

Texts == {Concat(ts) : ts \in UNION {[1..n -> Tokens] : n \in 0..MaxTokens}}

Clocks == {[year |-> 2025, rest |-> <<"-", "1", "2", "-", "3", "1">>],
           [year |-> 2026, rest |-> <<"-", "0", "1", "-", "0", "1">>]}

NotCalled == [kind |-> "NotCalled"]

\* the variables of the run, while a single function is exercised
RunIdle ==
    /\ pc = "idle"
    /\ catalog_page = NotCalled
    /\ hypermarkets = <<>>
    /\ i = 0
    /\ all_brochures = <<>>
    /\ responses = <<>>
    /\ trace = <<>>
    /\ output_file = NoneRec

ExtractIdle ==
    /\ brochure = NoneRec
    /\ shop_name = None
    /\ brochure_data = NotCalled

ParseInit ==
    /\ now \in Clocks
    /\ date_str \in Texts \cup {None}
    /\ parsed = NotCalled
    /\ ExtractIdle
    /\ RunIdle

ParseDate ==
    /\ parsed = NotCalled
    /\ parsed' = parse_date(date_str, now)
    /\ UNCHANGED <<now, date_str, extractVars, runVars>>

ParseNext == ParseDate

ParseSpec == ParseInit /\ [][ParseNext]_vars

(***************************************************************************)
(* Claims about parse_date, checked under ParseSpec.                       *)
(***************************************************************************)
ParseReturned == parsed # NotCalled

Hyphens(text) == {k \in 1..Len(text) : text[k] = "-"}

\* the two segments of a text with exactly one hyphen, each trimmed
Segment1(text) == Strip(SubSeq(text, 1, Min(Hyphens(text)) - 1))

Segment2(text) == Strip(SubSeq(text, Min(Hyphens(text)) + 1, Len(text)))

IsFullForm(seg) == Len(seg) = 10 /\ FullAt(seg, 1)

IsShortForm(seg) == Len(seg) = 6 /\ ShortAt(seg, 1)

HasFull(seg) == \E k \in 1..Len(seg) : FullAt(seg, k)

HasShort(seg) == \E k \in 1..Len(seg) : ShortAt(seg, k)

MixedForms(text) ==
    /\ text # None
    /\ Cardinality(Hyphens(text)) = 1
    /\ \/ IsFullForm(Segment1(text)) /\ IsShortForm(Segment2(text))
       \/ IsShortForm(Segment1(text)) /\ IsFullForm(Segment2(text))

FullSegment(text) ==
    IF IsFullForm(Segment1(text)) THEN Segment1(text) ELSE Segment2(text)

\* C4 as stated: an input whose two segments are of different forms (one
\* DD.MM.YYYY, the other DD.MM.) fails to parse: both dates are absent.
C4_MixedFormsFail ==
    (ParseReturned /\ MixedForms(date_str))
        => (parsed.valid_from = None /\ parsed.valid_to = None)

\* C4 amended: an input whose two segments are of different forms parses by
\* the short pattern: each date has the day and month of its own segment and
\* both have the year of the full-form segment.
C4_MixedFormsParse ==
    (ParseReturned /\ MixedForms(date_str))
        => LET s1 == Segment1(date_str)
               s2 == Segment2(date_str)
               y  == SubSeq(FullSegment(date_str), 7, 10)
           IN  /\ ~parsed.raised
               /\ parsed.valid_from = y \o <<"-">> \o SubSeq(s1, 4, 5) \o <<"-">> \o SubSeq(s1, 1, 2)
               /\ parsed.valid_to = y \o <<"-">> \o SubSeq(s2, 4, 5) \o <<"-">> \o SubSeq(s2, 1, 2)

C4_Witness ==
    /\ ParseReturned
    /\ MixedForms(date_str)
    /\ IsFullForm(Segment2(date_str))
    /\ parsed.valid_from # None

\* the input is resolved by the short pattern: two segments, not both holding
\* a full date, both holding a short date
ShortResolved(text) ==
    /\ text # None
    /\ Cardinality(Hyphens(Strip(text))) = 1
    /\ ~(HasFull(Segment1(Strip(text))) /\ HasFull(Segment2(Strip(text))))
    /\ HasShort(Segment1(Strip(text))) /\ HasShort(Segment2(Strip(text)))

\* positions where a standalone four-digit number starts: four digits with no
\* digit before or after them
StandaloneYears(text) ==
    {k \in 1..Len(text) : /\ YearAt(text, k)
                          /\ ~IsDigitAt(text, k + 4)
                          /\ (k = 1 \/ ~IsDigitAt(text, k - 1))}

\* positions where four consecutive digits start
FourDigitRuns(text) == {k \in 1..Len(text) : YearAt(text, k)}

YearOf(date) == SubSeq(date, 1, 4)

\* C5 as stated: by the short pattern both dates carry the same year, the
\* first standalone four-digit number of the text, or the current year when
\* the text has none.
C5_StandaloneYear ==
    (ParseReturned /\ ShortResolved(date_str))
        => LET at == StandaloneYears(date_str)
               y  == IF at # {} THEN SubSeq(date_str, Min(at), Min(at) + 3)
                     ELSE Str(now.year)
           IN  /\ parsed.valid_from # None /\ parsed.valid_to # None
               /\ YearOf(parsed.valid_from) = y /\ YearOf(parsed.valid_to) = y

\* C5 amended: by the short pattern both dates carry the same year, the first
\* four consecutive digits of the text (standalone or part of a longer run of
\* digits), or the current year when the text has no four consecutive digits.
C5_FirstFourDigits ==
    (ParseReturned /\ ShortResolved(date_str))
        => LET at == FourDigitRuns(date_str)
               y  == IF at # {} THEN SubSeq(date_str, Min(at), Min(at) + 3)
                     ELSE Str(now.year)
           IN  /\ parsed.valid_from # None /\ parsed.valid_to # None
               /\ Len(parsed.valid_from) = 10 /\ Len(parsed.valid_to) = 10
               /\ YearOf(parsed.valid_from) = y /\ YearOf(parsed.valid_to) = y

C5_Witness ==
    /\ ParseReturned
    /\ ShortResolved(date_str)
    /\ StandaloneYears(date_str) # {}
    /\ ~HasFull(Segment2(Strip(date_str)))
    /\ YearOf(parsed.valid_to) = tYear
    /\ YearOf(parsed.valid_to) # Str(now.year)

\* C6: parse_date returns without raising for every input; when the trimmed
\* text does not split on '-' into exactly two parts both dates are absent;
\* the two dates are always both present or both absent.
C6_NoRaiseBothOrNeither ==
    ParseReturned
        => /\ ~parsed.raised
           /\ (date_str # None /\ Cardinality(Hyphens(Strip(date_str))) + 1 # 2)
                => (parsed.valid_from = None /\ parsed.valid_to = None)
           /\ (parsed.valid_from = None) <=> (parsed.valid_to = None)

C6_Witness ==
    /\ ParseReturned
    /\ date_str # None
    /\ Cardinality(Hyphens(Strip(date_str))) = 2
    /\ HasShort(date_str)
    /\ parsed.valid_from = None /\ parsed.valid_to = None

(***************************************************************************)
(* Markup.  A brochure fragment is what the queries of                     *)
(* extract_brochure_data see of it: whether a div.grid-item-old exists,    *)
(* the first strong element, the img elements in document order, the first *)
(* small.visible-sm and the first small.hidden-sm.  An element is a Tag    *)
(* (always truthy) or None.                                                *)
(***************************************************************************)
Tag(text) == [kind |-> "Tag", text |-> text]

\* an attribute value: None when the attribute is missing, else a string,
\* kept as the parts urllib splits it into
UrlStr(scheme, host, rooted, segs, malformed) ==
    [kind |-> "str", scheme |-> scheme, host |-> host, rooted |-> rooted,
     segs |-> segs, malformed |-> malformed]

EmptyStr == UrlStr("", "", FALSE, <<>>, FALSE)

Truthy(a) == a # NoneRec /\ a # EmptyStr

Img(lazy, data_src, src) ==
    [kind |-> "Tag", lazyloadBrochure |-> lazy, data_src |-> data_src, src |-> src]

BASE_URL == UrlStr("https", "www.prospektmaschine.de", FALSE, <<>>, FALSE)

\* thumbnail.startswith(('http://', 'https://'))
IsAbsoluteHttp(u) == u.scheme \in {"http", "https"}

\* urljoin(self.BASE_URL, thumbnail): a ValueError for a reference urllib
\* cannot split, else the reference resolved against the base
UrlJoin(base, u) ==
    IF u.malformed THEN [raised |-> TRUE]
    ELSE [raised |-> FALSE,
          url |-> IF u.scheme # "" THEN u
                  ELSE IF u.host # ""
                       THEN UrlStr(base.scheme, u.host, u.rooted, u.segs, FALSE)
                  ELSE IF u.rooted
                       THEN UrlStr(base.scheme, base.host, TRUE, u.segs, FALSE)
                  ELSE UrlStr(base.scheme, base.host, TRUE,
                              (IF base.segs = <<>> THEN <<>>
                               ELSE SubSeq(base.segs, 1, Len(base.segs) - 1)) \o u.segs,
                              FALSE)]

\* brochure.find("img", class_="lazyloadBrochure")
RECURSIVE FindLazyImg(_)
FindLazyImg(imgs) ==
    IF imgs = <<>> THEN NoneRec
    ELSE IF Head(imgs).lazyloadBrochure THEN Head(imgs)
    ELSE FindLazyImg(Tail(imgs))

\* brochure.find("img")
FindImg(imgs) == IF imgs = <<>> THEN NoneRec ELSE Head(imgs)

\* datetime.datetime.now().strftime("%Y-%m-%d %H:%M:%S")
Strftime(clock) == Str(clock.year) \o clock.rest

(***************************************************************************)
(* extract_brochure_data, lines 157-224.  Each step returns the result of  *)
(* the rest of the function: [raised, data, log].                          *)
(***************************************************************************)
Returned(data, log) == [raised |-> FALSE, data |-> data, log |-> log]

ExtractRaised(exc) == [raised |-> TRUE, data |-> NoneRec, log |-> <<>>, exc |-> exc]

\* lines 209-221
ExtractDates(b, shop, clock, title, thumbnail, date_element) ==
    LET p == parse_date(Strip(date_element.text), clock)
    IN  IF p.raised THEN ExtractRaised("Exception")
        ELSE IF p.valid_from = None \/ p.valid_from = <<>>
                \/ p.valid_to = None \/ p.valid_to = <<>>
             THEN Returned(NoneRec, p.log)
        ELSE Returned([title |-> title, thumbnail |-> thumbnail, shop_name |-> shop,
                       valid_from |-> p.valid_from, valid_to |-> p.valid_to,
                       parsed_time |-> Strftime(clock)],
                      p.log)

\* lines 200-207
ExtractDateElement(b, shop, clock, title, thumbnail) ==
    IF b.visible_sm # NoneRec
    THEN ExtractDates(b, shop, clock, title, thumbnail, b.visible_sm)
    ELSE IF b.hidden_sm # NoneRec
         THEN ExtractDates(b, shop, clock, title, thumbnail, b.hidden_sm)
    ELSE Returned(NoneRec, <<Warning("extract", "Chybaju datumy platnosti letaku")>>)

\* lines 196-198
ExtractNormalise(b, shop, clock, title, thumbnail) ==
    IF IsAbsoluteHttp(thumbnail)
    THEN ExtractDateElement(b, shop, clock, title, thumbnail)
    ELSE LET j == UrlJoin(BASE_URL, thumbnail)
         IN  IF j.raised THEN ExtractRaised("ValueError")
             ELSE ExtractDateElement(b, shop, clock, title, j.url)

\* lines 179-194
ExtractThumbnail(b, shop, clock, title) ==
    LET lazy == FindLazyImg(b.imgs)
    IN  IF lazy # NoneRec /\ Truthy(lazy.data_src)
        THEN ExtractNormalise(b, shop, clock, title, lazy.data_src)
        ELSE
        LET img_element == FindImg(b.imgs)
        IN  IF img_element = NoneRec
            THEN Returned(NoneRec, <<Warning("extract", "Chyba thumbnail letaku")>>)
            ELSE
            LET thumbnail == IF Truthy(img_element.src) THEN img_element.src
                             ELSE img_element.data_src
            IN  IF ~Truthy(thumbnail)
                THEN Returned(NoneRec, <<Warning("extract", "Chyba URL thumbnailov")>>)
                ELSE ExtractNormalise(b, shop, clock, title, thumbnail)

\* lines 172-177
ExtractTitle(b, shop, clock) ==
    IF b.strong = NoneRec
    THEN Returned(NoneRec, <<Warning("extract", "Chyba nadpis letaku")>>)
    ELSE ExtractThumbnail(b, shop, clock, Strip(b.strong.text))

\* the title looked for before the stale marker
ExtractBody_TitleFirst(b, shop, clock) ==
    IF b.strong = NoneRec
    THEN Returned(NoneRec, <<Warning("extract", "Chyba nadpis letaku")>>)
    ELSE IF b.grid_item_old THEN Returned(NoneRec, <<>>)
    ELSE ExtractThumbnail(b, shop, clock, Strip(b.strong.text))

\* the body of the try block, lines 168-221
ExtractBody(b, shop, clock) ==
    IF b.grid_item_old THEN Returned(NoneRec, <<>>)
    ELSE ExtractTitle(b, shop, clock)

\* except Exception, lines 222-224
ExtractExcept(body) ==
    IF body.raised
    THEN Returned(NoneRec, <<Error("extract", "Chyba pri extrakcii dat letaku")>>)
    ELSE body

extract_brochure_data(b, shop, clock) == ExtractExcept(ExtractBody(b, shop, clock))

(***************************************************************************)
(* Inputs of extract_brochure_data: fragments with at most MaxImgs img     *)
(* elements.                                                               *)
(***************************************************************************)
relUrl == UrlStr("", "", TRUE, <<"img", "a.jpg">>, FALSE)
absUrl == UrlStr("https", "cdn.example", TRUE, <<"b.jpg">>, FALSE)
badUrl == UrlStr("", "[", TRUE, <<"c.jpg">>, TRUE)

Imgs == {Img(TRUE, relUrl, NoneRec),      \* lazy image with its data-src
         Img(TRUE, NoneRec, absUrl),      \* lazy class, but only a src
         Img(TRUE, EmptyStr, NoneRec),    \* lazy class, empty data-src
         Img(FALSE, relUrl, NoneRec),     \* plain image with only a data-src
         Img(FALSE, NoneRec, badUrl),     \* plain image, src urllib rejects
         Img(FALSE, NoneRec, NoneRec)}    \* plain image without any source

tBadDay == <<"3", "1", ".", "0", "2", ".">>

dFull   == <<" ">> \o tShort \o tYear \o <<" ", "-", " ">> \o tFull \o <<" ">>
dShort  == tShort \o tHyphen \o tShort
dBadCal == tBadDay \o tYear \o tHyphen \o tFull
dWord   == tWord

Titles == {<<" ">>, <<" ", "A", " ">>}

ShopNames == {<<"A">>}

Fragments ==
    [grid_item_old : BOOLEAN,
     strong        : {NoneRec} \cup {Tag(t) : t \in Titles},
     imgs          : UNION {[1..n -> Imgs] : n \in 0..MaxImgs},
     visible_sm    : {NoneRec} \cup {Tag(t) : t \in {dFull, dShort, dBadCal, dWord}},
     hidden_sm     : {NoneRec} \cup {Tag(t) : t \in {dFull, dWord}}]

ExtractInit ==
    /\ now \in Clocks
    /\ date_str = None
    /\ parsed = NotCalled
    /\ brochure \in Fragments
    /\ shop_name \in ShopNames
    /\ brochure_data = NotCalled
    /\ RunIdle

ExtractBrochureData ==
    /\ brochure_data = NotCalled
    /\ brochure_data' = extract_brochure_data(brochure, shop_name, now)
    /\ UNCHANGED <<now, parseVars, brochure, shop_name, runVars>>

ExtractNext == ExtractBrochureData

ExtractSpec == ExtractInit /\ [][ExtractNext]_vars

(***************************************************************************)
(* Claims about extract_brochure_data, checked under ExtractSpec.          *)
(***************************************************************************)
ExtractReturned == brochure_data # NotCalled

\* the five rejection conditions, each stated on the fragment alone
CondStale(b) == b.grid_item_old

CondNoTitle(b) == b.strong = NoneRec

CondNoThumbnail(b) ==
    LET lazies == {k \in 1..Len(b.imgs) : b.imgs[k].lazyloadBrochure}
    IN  /\ ~(lazies # {} /\ Truthy(b.imgs[Min(lazies)].data_src))
        /\ ~(b.imgs # <<>> /\ (Truthy(b.imgs[1].src) \/ Truthy(b.imgs[1].data_src)))

CondNoDateElement(b) == b.visible_sm = NoneRec /\ b.hidden_sm = NoneRec

CondIncompleteRange(b, clock) ==
    LET el == IF b.visible_sm # NoneRec THEN b.visible_sm ELSE b.hidden_sm
        p  == parse_date(Strip(el.text), clock)
    IN  p.valid_from = None \/ p.valid_to = None

\* the first condition, in the stated order, that applies; 0 when none does
FirstFailing(b, clock) ==
    IF CondStale(b) THEN 1
    ELSE IF CondNoTitle(b) THEN 2
    ELSE IF CondNoThumbnail(b) THEN 3
    ELSE IF CondNoDateElement(b) THEN 4
    ELSE IF CondIncompleteRange(b, clock) THEN 5
    ELSE 0

ExtractorWarnings(log) ==
    SelectSeq(log, LAMBDA e : e.by = "extract" /\ e.level = "WARNING")

\* the condition a warning of the extractor names
ConditionOf(msg) ==
    CASE msg = "Chyba nadpis letaku" -> 2
      [] msg = "Chyba thumbnail letaku" -> 3
      [] msg = "Chyba URL thumbnailov" -> 3
      [] msg = "Chybaju datumy platnosti letaku" -> 4
      [] OTHER -> 0 - 1

\* C7: the rejection conditions are checked in the order stale marker,
\* missing title, no usable thumbnail URL, missing date element, incomplete
\* date range, and the first that applies decides: a record is returned only
\* when none applies, a fragment to which one applies is rejected, the
\* extractor emits at most one warning and that warning names the first
\* failing condition; a stale fragment is rejected without any log record and
\* a missing title or thumbnail always gets its warning.
C7_FirstFailingConditionDecides ==
    ExtractReturned
        => LET f == FirstFailing(brochure, now)
               w == ExtractorWarnings(brochure_data.log)
           IN  /\ ~brochure_data.raised
               /\ brochure_data.data # NoneRec => f = 0
               /\ f # 0 => brochure_data.data = NoneRec
               /\ Len(w) <= 1
               /\ w # <<>> => ConditionOf(w[1].msg) = f
               /\ f \in {2, 3} => w # <<>>
               /\ f = 1 => brochure_data.log = <<>>

C7_Witness ==
    /\ ExtractReturned
    /\ ~CondStale(brochure)
    /\ CondNoTitle(brochure)
    /\ CondNoThumbnail(brochure)
    /\ CondNoDateElement(brochure)
    /\ brochure_data.data = NoneRec
    /\ brochure_data.log = <<Warning("extract", "Chyba nadpis letaku")>>

\* calendar dates
DigitVal(c) == CHOOSE n \in 0..9 : DigitChar(n) = c

RECURSIVE Num(_)
Num(ds) == IF ds = <<>> THEN 0 ELSE 10 * Num(SubSeq(ds, 1, Len(ds) - 1)) + DigitVal(ds[Len(ds)])

IsLeap(y) == (y % 4 = 0 /\ y % 100 # 0) \/ y % 400 = 0

DaysIn(m, y) ==
    IF m = 2 THEN (IF IsLeap(y) THEN 29 ELSE 28)
    ELSE IF m \in {4, 6, 9, 11} THEN 30 ELSE 31

\* YYYY-MM-DD naming a day of the calendar
WellFormedDate(d) ==
    /\ Len(d) = 10
    /\ \A k \in {1, 2, 3, 4, 6, 7, 9, 10} : d[k] \in Digits
    /\ d[5] = "-" /\ d[8] = "-"
    /\ LET y  == Num(SubSeq(d, 1, 4))
           m  == Num(SubSeq(d, 6, 7))
           dd == Num(SubSeq(d, 9, 10))
       IN  y >= 1 /\ m \in 1..12 /\ dd >= 1 /\ dd <= DaysIn(m, y)

\* C8: every record extract returns has a valid_from and a valid_to that are
\* well-formed calendar dates (month in 1..12, day valid for the month and
\* year).
C8_DatesWellFormed ==
    (ExtractReturned /\ brochure_data.data # NoneRec)
        => /\ WellFormedDate(brochure_data.data.valid_from)
           /\ WellFormedDate(brochure_data.data.valid_to)

\* C9: every record extract returns has a non-empty title.
C9_TitleNonEmpty ==
    (ExtractReturned /\ brochure_data.data # NoneRec)
        => brochure_data.data.title # <<>>

(***************************************************************************)
(* The run: get_page_content, get_hypermarket_links,                       *)
(* get_brochures_for_shop, scrape_all_hypermarkets, save_to_json, run.     *)
(* A response is what session.get and raise_for_status end with: a         *)
(* RequestException, or the document BeautifulSoup parses.                 *)
(***************************************************************************)
RequestException == [kind |-> "RequestException"]

Response(soup) == [kind |-> "Response", soup |-> soup]

\* get_page_content, lines 61-68: None for a RequestException
get_page_content(response) ==
    IF response = RequestException THEN NoneRec ELSE response.soup

HYPERMARKETS_PATH == UrlStr("", "", TRUE, <<"hypermarkte", "">>, FALSE)

\* lines 148-152: one entry for each link of the container, in document order
RECURSIVE LinksFrom(_)
LinksFrom(links) ==
    IF links = <<>> THEN <<>>
    ELSE <<[url |-> Head(links).href, name |-> Strip(Head(links).text)]>>
         \o LinksFrom(Tail(links))

\* the container looked into without the test of line 144
get_hypermarket_links_Unchecked(response) ==
    LET soup == get_page_content(response)
    IN  IF soup = NoneRec THEN [raised |-> FALSE, hypermarkets |-> <<>>]
        ELSE IF soup.categories = NoneRec THEN [raised |-> TRUE, hypermarkets |-> <<>>]
        ELSE [raised |-> FALSE, hypermarkets |-> LinksFrom(soup.categories.links)]

\* get_hypermarket_links, lines 136-155, given the answer to its request
get_hypermarket_links(response) ==
    LET soup == get_page_content(response)
    IN  IF soup = NoneRec THEN [raised |-> FALSE, hypermarkets |-> <<>>]
        ELSE IF soup.categories = NoneRec THEN [raised |-> FALSE, hypermarkets |-> <<>>]
        ELSE [raised |-> FALSE, hypermarkets |-> LinksFrom(soup.categories.links)]

\* lines 250-258: the loop over the brochure elements
RECURSIVE BrochuresLoop(_, _, _, _)
BrochuresLoop(elements, shop, clock, brochures) ==
    IF elements = <<>> THEN brochures
    ELSE LET data == extract_brochure_data(Head(elements), shop, clock).data
         IN  BrochuresLoop(Tail(elements), shop, clock,
                           IF data # NoneRec THEN Append(brochures, data) ELSE brochures)

\* get_brochures_for_shop, lines 236-260, given the answer to its request
get_brochures_for_shop(response, shop, clock) ==
    LET soup == get_page_content(response)
    IN  IF soup = NoneRec THEN <<>>
        ELSE BrochuresLoop(soup.brochure_thumb, shop, clock, <<>>)

\* line 275: all_brochures.extend(brochures)
Extend_Assign(aggregate, brochures) == brochures

Extend(aggregate, brochures) == aggregate \o brochures

\* line 278: i < len(hypermarkets) - 1
NeedsSleep_AfterEach(idx, n) == idx < n

NeedsSleep_Inverted(idx, n) == idx > n - 1

NeedsSleep(idx, n) == idx < n - 1

RequestEvent(what, url) == [type |-> "request", what |-> what, url |-> url]

SleepEvent == [type |-> "sleep", seconds |-> 1]

SaveEvent(data) == [type |-> "save", data |-> data]

\* json.dump(data, f, ensure_ascii=False, indent=2): one array, the records in
\* order, each with its fields by name
JsonDump(data) == [kind |-> "json", array |-> data]

(***************************************************************************)
(* The web site.  The catalog page lists the first n shops, n <= MaxShops; *)
(* the hrefs are references urllib can split.                              *)
(***************************************************************************)
ShopLink(k) ==
    [href |-> UrlStr("", "", TRUE, <<"shop", DigitChar(k)>>, FALSE),
     text |-> <<" ", "S", DigitChar(k), " ">>]

Catalog(n) == [k \in 1..n |-> ShopLink(k)]

CatalogResponses ==
    {RequestException, Response([categories |-> NoneRec])}
        \cup {Response([categories |-> [kind |-> "Tag", links |-> Catalog(n)]]) :
                n \in 0..MaxShops}

Fragment(old, title, date) ==
    [grid_item_old |-> old, strong |-> Tag(title),
     imgs |-> <<Img(TRUE, relUrl, NoneRec)>>,
     visible_sm |-> Tag(date), hidden_sm |-> NoneRec]

f1     == Fragment(FALSE, <<"a", "1">>, dFull)
f2     == Fragment(FALSE, <<"a", "2">>, dShort)
fStale == Fragment(TRUE, <<"o", "l", "d">>, dFull)
fWord  == Fragment(FALSE, <<"a", "3">>, dWord)

ShopResponses ==
    {RequestException} \cup
    {Response([brochure_thumb |-> fs]) :
        fs \in {<<>>, <<f1>>, <<f1, fStale, f2>>, <<f2, fWord, f1>>}}

RunInit ==
    /\ now \in Clocks
    /\ date_str = None
    /\ parsed = NotCalled
    /\ ExtractIdle
    /\ pc = "start"
    /\ catalog_page = NotCalled
    /\ hypermarkets = <<>>
    /\ i = 0
    /\ all_brochures = <<>>
    /\ responses = <<>>
    /\ trace = <<>>
    /\ output_file = NoneRec

\* run, lines 298-300, and scrape_all_hypermarkets, lines 268-269
GetHypermarketLinks ==
    /\ pc = "start"
    /\ \E response \in CatalogResponses :
        LET r == get_hypermarket_links(response)
        IN  /\ catalog_page' = response
            /\ trace' = Append(trace, RequestEvent("catalog", UrlJoin(BASE_URL, HYPERMARKETS_PATH).url))
            /\ hypermarkets' = r.hypermarkets
            /\ pc' = IF r.raised THEN "crashed"
                     ELSE IF r.hypermarkets = <<>> THEN "save" ELSE "visit"
    /\ i' = 0
    /\ all_brochures' = <<>>
    /\ UNCHANGED <<now, parseVars, extractVars, responses, output_file>>

\* scrape_all_hypermarkets, lines 271-278: one shop, up to the test for the pause
VisitShop ==
    /\ pc = "visit"
    /\ \E response \in ShopResponses :
        LET hypermarket == hypermarkets[i + 1]
            brochures   == get_brochures_for_shop(response, hypermarket.name, now)
        IN  /\ responses' = Append(responses, response)
            /\ trace' = Append(trace, RequestEvent("shop", UrlJoin(BASE_URL, hypermarket.url).url))
            /\ all_brochures' = Extend(all_brochures, brochures)
    /\ pc' = IF NeedsSleep(i, Len(hypermarkets)) THEN "sleep"
             ELSE IF i + 1 < Len(hypermarkets) THEN "visit" ELSE "save"
    /\ i' = IF NeedsSleep(i, Len(hypermarkets)) \/ i + 1 >= Len(hypermarkets)
            THEN i ELSE i + 1
    /\ UNCHANGED <<now, parseVars, extractVars, catalog_page, hypermarkets, output_file>>

\* scrape_all_hypermarkets, line 279, and the step to the next shop
Sleep ==
    /\ pc = "sleep"
    /\ trace' = Append(trace, SleepEvent)
    /\ pc' = IF i + 1 < Len(hypermarkets) THEN "visit" ELSE "save"
    /\ i' = IF i + 1 < Len(hypermarkets) THEN i + 1 ELSE i
    /\ UNCHANGED <<now, parseVars, extractVars, catalog_page, hypermarkets,
                   all_brochures, responses, output_file>>

\* run, lines 301-304, and save_to_json, lines 289-294: the file is written,
\* or open fails and the file is as before, or the write fails part way
SaveToJson ==
    /\ pc = "save"
    /\ trace' = Append(trace, SaveEvent(all_brochures))
    /\ \E outcome \in {"written", "open failed", "write failed"} :
        output_file' = CASE outcome = "written" -> JsonDump(all_brochures)
                         [] outcome = "open failed" -> output_file
                         [] outcome = "write failed" -> [kind |-> "truncated"]
    /\ pc' = "done"
    /\ UNCHANGED <<now, parseVars, extractVars, catalog_page, hypermarkets, i,
                   all_brochures, responses>>

Init == RunInit

Next == GetHypermarketLinks \/ VisitShop \/ Sleep \/ SaveToJson

Spec == Init /\ [][Next]_vars

(***************************************************************************)
(* Claims about the run, checked under Spec.                               *)
(***************************************************************************)
\* the records a shop contributes: none when its page request failed, else
\* the records of the accepted fragments of its page, in document order
RECURSIVE Accepted(_, _, _)
Accepted(fragments, shop, clock) ==
    IF fragments = <<>> THEN <<>>
    ELSE LET n    == Len(fragments)
             last == extract_brochure_data(fragments[n], shop, clock).data
         IN  Accepted(SubSeq(fragments, 1, n - 1), shop, clock)
                \o (IF last = NoneRec THEN <<>> ELSE <<last>>)

Contribution(k) ==
    IF responses[k] = RequestException THEN <<>>
    ELSE Accepted(responses[k].soup.brochure_thumb, hypermarkets[k].name, now)

RECURSIVE Contributions(_)
Contributions(n) == IF n = 0 THEN <<>> ELSE Contributions(n - 1) \o Contribution(n)

Returned_Aggregate == pc \in {"save", "done"}

\* C1: the aggregate scrape_all_hypermarkets returns is the concatenation, in
\* catalog order, of the contributions of the shops, a shop whose page request
\* failed contributing nothing; every shop of the catalog was visited.
C1_AggregateInCatalogOrder ==
    /\ pc \in {"visit", "sleep", "save", "done"}
          => all_brochures = Contributions(Len(responses))
    /\ Returned_Aggregate => Len(responses) = Len(hypermarkets)

C1_Witness ==
    /\ pc = "done"
    /\ Len(hypermarkets) = 3
    /\ responses[2] = RequestException
    /\ Len(Contribution(1)) = 2
    /\ Len(Contribution(3)) = 2
    /\ Contribution(1)[1].title # Contribution(1)[2].title
    /\ all_brochures = Contribution(1) \o Contribution(3)

CatalogUnavailable ==
    \/ catalog_page = RequestException
    \/ catalog_page = Response([categories |-> NoneRec])

Events(type) == {k \in 1..Len(trace) : trace[k].type = type}

ShopRequests == {k \in 1..Len(trace) : trace[k].type = "request" /\ trace[k].what = "shop"}

\* C2: when the catalog page cannot be fetched or has no category container,
\* the aggregate is empty, no shop page is requested, no pause is made, and
\* the run goes on to save an empty array and completes without an error.
C2_CatalogUnavailable ==
    CatalogUnavailable
        => /\ pc \in {"save", "done"}
           /\ all_brochures = <<>>
           /\ ShopRequests = {}
           /\ Events("sleep") = {}
           /\ pc = "save" => ENABLED SaveToJson
           /\ pc = "done" => /\ trace[Len(trace)] = SaveEvent(<<>>)
                             /\ output_file \in {JsonDump(<<>>), NoneRec, [kind |-> "truncated"]}

C2_Witness ==
    /\ catalog_page = Response([categories |-> NoneRec])
    /\ pc = "done"
    /\ output_file = JsonDump(<<>>)

\* C3: over a catalog of n shops a pause follows the visit of every shop but
\* the last, whether or not the visit succeeded: every pause stands directly
\* between two shop visits, consecutive visits have a pause between them, and
\* a finished run has made exactly max(n-1, 0) pauses for its n visits.
C3_PauseBetweenVisits ==
    /\ \A k \in Events("sleep") :
          /\ k - 1 \in ShopRequests
          /\ k < Len(trace) => k + 1 \in ShopRequests
          /\ pc \in {"save", "done"} => k < Len(trace)
    /\ \A k \in ShopRequests : k + 1 \notin ShopRequests
    /\ pc \in {"save", "done"}
          => /\ Cardinality(ShopRequests) = Len(hypermarkets)
             /\ Cardinality(Events("sleep"))
                  = (IF Len(hypermarkets) >= 1 THEN Len(hypermarkets) - 1 ELSE 0)

C3_Witness ==
    /\ pc = "done"
    /\ Len(hypermarkets) = 3
    /\ responses[1] = RequestException
    /\ trace[3].type = "sleep"
    /\ Cardinality(Events("sleep")) = 2

\* C10 as stated: a pause separates every two consecutive outbound requests,
\* the request for the catalog page and the first shop page request included.
C10_PauseBetweenAllRequests ==
    \A k \in Events("request") : k + 1 \notin Events("request")

\* C10 amended: a pause separates every two consecutive shop page requests;
\* the first shop page request follows the request for the catalog page
\* directly, with no pause between the two.
C10_PauseBetweenShopRequests ==
    /\ \A k \in Events("request") :
          k + 1 \in Events("request") => (k = 1 /\ trace[k].what = "catalog")
    /\ \A k \in ShopRequests :
          \A m \in ShopRequests :
              (k < m /\ \A j \in ShopRequests : ~(k < j /\ j < m))
                  => (m = k + 2 /\ trace[k + 1] = SleepEvent)
    /\ (ShopRequests # {} /\ Len(trace) >= 2)
          => (trace[1].what = "catalog" /\ 2 \in ShopRequests)

C10_Witness ==
    /\ pc = "done"
    /\ Len(trace) >= 5
    /\ trace[1].type = "request" /\ trace[2].type = "request"
    /\ trace[3].type = "sleep" /\ trace[4].type = "request"

====
